---- MODULE Spec2Model ----
(***************************************************************************)
(* MeshStyle (src/src/chart/mesh.rs): the chainable mesh configuration of  *)
(* a chart and its terminal operation draw(), which resolves the optional  *)
(* styles and issues two draw_mesh calls against the chart context.        *)
(*                                                                         *)
(* The chart context (the target) is modelled by the log of the draw_mesh  *)
(* calls it has received; what each draw_mesh call returns, which          *)
(* gridlines it hands to the label callback and whether the build checks   *)
(* arithmetic overflow are inputs of draw().                               *)
(***************************************************************************)
EXTENDS Integers, Sequences, FiniteSets, TLC

VARIABLES cfg, calls, result, ndraw, nmut

vars == <<cfg, calls, result, ndraw, nmut>>

(***************************************************************************)
(* Bounds of the model.                                                    *)
(***************************************************************************)
\* usize is modelled UsizeBits wide (the arithmetic is done modulo 2^UsizeBits)
UsizeBits == 8
\* at most MaxMutations mutator calls on one configuration
MaxMutations == 2

UsizeModulus == 2 ^ UsizeBits
UsizeMax == UsizeModulus - 1

(***************************************************************************)
(* Option<T> and Result<(), E>                                             *)
(***************************************************************************)
None == <<>>
Some(v) == <<v>>

Ok == <<"Ok">>
Err(e) == <<"Err", e>>
Panic(why) == <<"Panic", why>>
NotReturned == <<"NotReturned">>

\* Option::unwrap_or_else
unwrap_or_else(o, d) == IF o = None THEN d ELSE o[1]

(***************************************************************************)
(* Style values.  A colour is its RGB triple and its opacity in percent;   *)
(* a ShapeStyle carries a colour, a TextStyle carries a font description.  *)
(***************************************************************************)
RGBColor(r, g, b) == [rgb |-> <<r, g, b>>, alpha |-> 100]
\* Mixable::mix(value): the same colour at the given opacity (in percent)
mix(c, percent) == [c EXCEPT !.alpha = percent]
FontDesc(family, size) == [family |-> family, size |-> size]
\* (&color).into() : ShapeStyle
ShapeStyleFrom(c) == [color |-> c]
\* (&font).into() : TextStyle
TextStyleFrom(f) == [font |-> f]

default_mesh_color_1 == mix(RGBColor(0, 0, 0), 20)
default_mesh_color_2 == mix(RGBColor(0, 0, 0), 10)
default_axis_color == RGBColor(0, 0, 0)
default_label_font == FontDesc("Arial", 12)

(***************************************************************************)
(* Values a caller passes to the mutators.                                 *)
(***************************************************************************)
UserShapeStyles == {ShapeStyleFrom(RGBColor(255, 0, 0))}
UserTextStyles == {TextStyleFrom(FontDesc("Serif", 20))}
Offsets == {0 - 4, 8}
Descs == {"Time", "Count"}
\* a small count, and the least count whose tenfold does not fit a usize
LabelCounts == {0, (UsizeMax \div 10) + 1}
XValues == {"a", "b"}
YValues == {"c"}
Formatters == {"debug", "upper"}
BackendErrors == {"E1", "E2"}
TargetId == "chart"

\* a formatter binding applied to a domain value
Upper(v) == CASE v = "a" -> "A" [] v = "b" -> "B" [] v = "c" -> "C"
Apply(f, v) == IF f = "upper" THEN Upper(v) ELSE v

\* MeshLine::XMesh(_, _, v) | MeshLine::YMesh(_, _, v)
MeshLines == [tag : {"XMesh"}, v : XValues] \cup [tag : {"YMesh"}, v : YValues]

\* The label callbacks keep no state of their own (they read the gridline
\* and the configuration), so a draw_mesh call is described by the set of
\* gridlines it hands to its callback and the callback's outcome on each.
LineSets == SUBSET MeshLines

(***************************************************************************)
(* The configuration as the owning chart hands it out.                     *)
(***************************************************************************)
InitCfg ==
  [draw_x_mesh |-> TRUE, draw_y_mesh |-> TRUE,
   draw_x_axis |-> TRUE, draw_y_axis |-> TRUE,
   x_label_offset |-> 0,
   n_x_labels |-> 5, n_y_labels |-> 5,
   axis_desc_style |-> None,
   x_desc |-> None, y_desc |-> None,
   line_style_1 |-> None, line_style_2 |-> None,
   axis_style |-> None, label_style |-> None,
   format_x |-> "debug", format_y |-> "debug",
   target |-> Some(TargetId)]

(***************************************************************************)
(* The mutators: the configuration each one leaves behind.                 *)
(***************************************************************************)
x_label_offset(c, value) == [c EXCEPT !.x_label_offset = value]
disable_x_mesh(c) == [c EXCEPT !.draw_x_mesh = FALSE]
disable_y_mesh(c) == [c EXCEPT !.draw_y_mesh = FALSE]
disable_x_axis(c) == [c EXCEPT !.draw_x_axis = FALSE]
disable_y_axis(c) == [c EXCEPT !.draw_y_axis = FALSE]
axis_style(c, style) == [c EXCEPT !.axis_style = Some(style)]
x_labels(c, value) == [c EXCEPT !.n_x_labels = value]
y_labels(c, value) == [c EXCEPT !.n_y_labels = value]
line_style_1(c, style) == [c EXCEPT !.line_style_1 = Some(style)]
line_style_2(c, style) == [c EXCEPT !.line_style_2 = Some(style)]
label_style(c, style) == [c EXCEPT !.label_style = Some(style)]
x_label_formatter(c, fmt) == [c EXCEPT !.format_x = fmt]
y_label_formatter(c, fmt) == [c EXCEPT !.format_y = fmt]
axis_desc_style(c, style) == [c EXCEPT !.axis_desc_style = Some(style)]
\* a variant of x_desc that stores the description in the other axis's field
x_desc_into_y_desc(c, desc) == [c EXCEPT !.y_desc = Some(desc)]
x_desc(c, desc) == [c EXCEPT !.x_desc = Some(desc)]
y_desc(c, desc) == [c EXCEPT !.y_desc = Some(desc)]

(***************************************************************************)
(* draw(): style resolution.                                               *)
(***************************************************************************)
\* a variant of resolve_axis_desc_style with a default of its own
resolve_axis_desc_style_own_default(c, label) ==
  unwrap_or_else(c.axis_desc_style, TextStyleFrom(default_label_font))
\* self.axis_desc_style.clone().unwrap_or_else(|| label_style.clone())
resolve_axis_desc_style(c, label) == unwrap_or_else(c.axis_desc_style, label)

ResolveStyles(c) ==
  LET label == unwrap_or_else(c.label_style, TextStyleFrom(default_label_font))
  IN [mesh_style_1 |-> unwrap_or_else(c.line_style_1, ShapeStyleFrom(default_mesh_color_1)),
      mesh_style_2 |-> unwrap_or_else(c.line_style_2, ShapeStyleFrom(default_mesh_color_2)),
      axis_style |-> unwrap_or_else(c.axis_style, ShapeStyleFrom(default_axis_color)),
      label_style |-> label,
      axis_desc_style |-> resolve_axis_desc_style(c, label)]

(***************************************************************************)
(* draw(): usize arithmetic of the fine pass's label-count hints.          *)
(* A build with overflow checks panics on overflow, one without wraps.     *)
(***************************************************************************)
\* the granularity factor of the fine pass
FineFactor == 10
usize_mul(a, b) == (a * b) % UsizeModulus
mul_overflows(a, b) == a * b > UsizeMax

fine_hints(c) == <<usize_mul(c.n_y_labels, FineFactor), usize_mul(c.n_x_labels, FineFactor)>>
fine_hints_overflow(c) ==
  mul_overflows(c.n_y_labels, FineFactor) \/ mul_overflows(c.n_x_labels, FineFactor)
coarse_hints(c) == <<c.n_y_labels, c.n_x_labels>>

(***************************************************************************)
(* draw(): the label-text callbacks.  A callback's outcome on a gridline   *)
(* is the text it returns and the formatter bindings it invoked.           *)
(***************************************************************************)
\* |_| None
fine_fmt_label(c, m) == [line |-> m, text |-> None, invoked |-> {}]

\* a variant of coarse_fmt_label that formats every gridline with format_x
coarse_fmt_label_x_only(c, m) ==
  [line |-> m, text |-> Some(Apply(c.format_x, m.v)), invoked |-> {"format_x"}]

\* |m| match m { XMesh(_, _, v) => Some((self.format_x)(v)), YMesh(..) => ... }
coarse_fmt_label(c, m) ==
  IF m.tag = "XMesh"
  THEN [line |-> m, text |-> Some(Apply(c.format_x, m.v)), invoked |-> {"format_x"}]
  ELSE [line |-> m, text |-> Some(Apply(c.format_y, m.v)), invoked |-> {"format_y"}]

(***************************************************************************)
(* draw(): the two draw_mesh calls, as the target receives them.  lines is *)
(* the set of gridlines draw_mesh hands to the callback, ret what the call *)
(* returns.                                                                *)
(***************************************************************************)
\* the axis-line flags and the axis descriptions each call is given
\* a variant of fine_axes that passes the configured flags
fine_axes_configured(c) == <<c.draw_x_axis, c.draw_y_axis>>
fine_axes(c) == <<FALSE, FALSE>>
fine_descs(c) == <<c.x_desc, c.y_desc>>
coarse_axes(c) == <<c.draw_x_axis, c.draw_y_axis>>
\* a variant of coarse_descs that passes the configured descriptions
coarse_descs_configured(c) == <<c.x_desc, c.y_desc>>
coarse_descs(c) == <<None, None>>

FinePass(c, tgt, lines, ret) ==
  LET st == ResolveStyles(c)
  IN [target |-> tgt,
      hints |-> fine_hints(c),
      mesh_line_style |-> st.mesh_style_2,
      label_style |-> st.label_style,
      labels |-> [m \in lines |-> fine_fmt_label(c, m)],
      x_mesh |-> c.draw_x_mesh,
      y_mesh |-> c.draw_y_mesh,
      x_label_offset |-> c.x_label_offset,
      x_axis |-> fine_axes(c)[1],
      y_axis |-> fine_axes(c)[2],
      axis_style |-> st.axis_style,
      axis_desc_style |-> st.axis_desc_style,
      x_desc |-> fine_descs(c)[1],
      y_desc |-> fine_descs(c)[2],
      ret |-> ret]

CoarsePass(c, tgt, lines, ret) ==
  LET st == ResolveStyles(c)
  IN [target |-> tgt,
      hints |-> coarse_hints(c),
      mesh_line_style |-> st.mesh_style_1,
      label_style |-> st.label_style,
      labels |-> [m \in lines |-> coarse_fmt_label(c, m)],
      x_mesh |-> c.draw_x_mesh,
      y_mesh |-> c.draw_y_mesh,
      x_label_offset |-> c.x_label_offset,
      x_axis |-> coarse_axes(c)[1],
      y_axis |-> coarse_axes(c)[2],
      axis_style |-> st.axis_style,
      axis_desc_style |-> st.axis_desc_style,
      x_desc |-> coarse_descs(c)[1],
      y_desc |-> coarse_descs(c)[2],
      ret |-> ret]

(***************************************************************************)
(* draw(): the whole operation.                                            *)
(***************************************************************************)
\* a variant of take_target that also stores the resolved label style
take_target_storing_label(c) ==
  [c EXCEPT !.target = None,
            !.label_style = Some(unwrap_or_else(c.label_style, TextStyleFrom(default_label_font)))]
\* let mut target = None; std::mem::swap(&mut target, &mut self.target);
take_target(c) == [c EXCEPT !.target = None]

\* a variant of sequence_passes that goes on after a failed fine pass
sequence_passes_ignoring_fine(fine, coarse) ==
  [issued |-> <<fine, coarse>>, ret |-> coarse.ret]
\* first_call(..)?; second_call(..)
\* the calls issued and the value returned, given the two calls' outcomes
sequence_passes(fine, coarse) ==
  IF fine.ret # Ok
  THEN [issued |-> <<fine>>, ret |-> fine.ret]
  ELSE [issued |-> <<fine, coarse>>, ret |-> coarse.ret]

\* overflow_checks: whether the build checks arithmetic overflow
draw(c, overflow_checks, lines, fine_ret, coarse_ret) ==
  LET taken == c.target
      spent == take_target(c)
  IN IF taken = None
     THEN [cfg |-> spent, issued |-> <<>>, ret |-> Panic("unwrap on None")]
     ELSE IF overflow_checks /\ fine_hints_overflow(spent)
     THEN [cfg |-> spent, issued |-> <<>>, ret |-> Panic("multiply with overflow")]
     ELSE LET passes == sequence_passes(FinePass(spent, taken[1], lines, fine_ret),
                                        CoarsePass(spent, taken[1], lines, coarse_ret))
          IN [cfg |-> spent, issued |-> passes.issued, ret |-> passes.ret]

(***************************************************************************)
(* The state machine.                                                      *)
(*   cfg    the MeshStyle                                                  *)
(*   calls  the draw_mesh calls the target has received, in order          *)
(*   result what the last draw() returned (or how it ended)                *)
(*   ndraw  the number of draw() invocations                               *)
(*   nmut   the number of mutator invocations                              *)
(***************************************************************************)
Results == {Ok} \cup {Err(e) : e \in BackendErrors}

Init ==
  /\ cfg = InitCfg
  /\ calls = <<>>
  /\ result = NotReturned
  /\ ndraw = 0
  /\ nmut = 0

Running == result[1] # "Panic"

Mutate(c2) ==
  /\ Running
  /\ nmut < MaxMutations
  /\ cfg' = c2
  /\ nmut' = nmut + 1
  /\ UNCHANGED <<calls, result, ndraw>>

Call_x_label_offset ==
  \E v \in Offsets : Mutate(x_label_offset(cfg, v))
Call_disable_x_mesh == Mutate(disable_x_mesh(cfg))
Call_disable_y_mesh == Mutate(disable_y_mesh(cfg))
Call_disable_x_axis == Mutate(disable_x_axis(cfg))
Call_disable_y_axis == Mutate(disable_y_axis(cfg))
Call_axis_style ==
  \E s \in UserShapeStyles : Mutate(axis_style(cfg, s))
Call_x_labels ==
  \E v \in LabelCounts : Mutate(x_labels(cfg, v))
Call_y_labels ==
  \E v \in LabelCounts : Mutate(y_labels(cfg, v))
Call_line_style_1 ==
  \E s \in UserShapeStyles : Mutate(line_style_1(cfg, s))
Call_line_style_2 ==
  \E s \in UserShapeStyles : Mutate(line_style_2(cfg, s))
Call_label_style ==
  \E s \in UserTextStyles : Mutate(label_style(cfg, s))
Call_x_label_formatter ==
  \E f \in Formatters : Mutate(x_label_formatter(cfg, f))
Call_y_label_formatter ==
  \E f \in Formatters : Mutate(y_label_formatter(cfg, f))
Call_axis_desc_style ==
  \E s \in UserTextStyles : Mutate(axis_desc_style(cfg, s))
Call_x_desc ==
  \E d \in Descs : Mutate(x_desc(cfg, d))
Call_y_desc ==
  \E d \in Descs : Mutate(y_desc(cfg, d))

\* the inputs of one draw(): an input that the run never consults is fixed
DrawInputs(c) ==
  LET reaches_calls(chk) == c.target # None /\ ~(chk /\ fine_hints_overflow(c))
  IN {i \in [overflow_checks : BOOLEAN, lines : LineSets,
              fine_ret : Results, coarse_ret : Results] :
        /\ (c.target = None \/ ~fine_hints_overflow(c)) => ~i.overflow_checks
        /\ ~reaches_calls(i.overflow_checks) => (i.lines = {} /\ i.fine_ret = Ok)
        /\ (~reaches_calls(i.overflow_checks) \/ i.fine_ret # Ok) => i.coarse_ret = Ok}

Call_draw ==
  /\ Running
  /\ \E i \in DrawInputs(cfg) :
       LET out == draw(cfg, i.overflow_checks, i.lines, i.fine_ret, i.coarse_ret)
       IN /\ cfg' = out.cfg
          /\ calls' = calls \o out.issued
          /\ result' = out.ret
  /\ ndraw' = ndraw + 1
  /\ UNCHANGED nmut

Next ==
  \/ Call_x_label_offset
  \/ Call_disable_x_mesh
  \/ Call_disable_y_mesh
  \/ Call_disable_x_axis
  \/ Call_disable_y_axis
  \/ Call_axis_style
  \/ Call_x_labels
  \/ Call_y_labels
  \/ Call_line_style_1
  \/ Call_line_style_2
  \/ Call_label_style
  \/ Call_x_label_formatter
  \/ Call_y_label_formatter
  \/ Call_axis_desc_style
  \/ Call_x_desc
  \/ Call_y_desc
  \/ Call_draw

Spec == Init /\ [][Next]_vars

(***************************************************************************)
(* Vocabulary of the properties.                                           *)
(***************************************************************************)
Fields == DOMAIN InitCfg
\* a step that is one invocation of draw()
DrawStep == ndraw' = ndraw + 1
\* the draw_mesh calls that step issued
Issued == SubSeq(calls', Len(calls) + 1, Len(calls'))
\* every issued call returned success
BackendSucceeds == \A i \in 1..Len(Issued) : Issued[i].ret = Ok
NoText(k) == \A m \in DOMAIN k.labels : k.labels[m].text = None
\* the value of an optional style slot, or the given built-in default
Resolved(o, d) == IF o = None THEN d ELSE o[1]
Black(percent) == [rgb |-> <<0, 0, 0>>, alpha |-> percent]
Size12 == [font |-> [family |-> "Arial", size |-> 12]]
\* c2 is c with field f overwritten by v and nothing else changed
Overwrites(c, c2, f, v) ==
  /\ c2[f] = v
  /\ \A g \in Fields \ {f} : c2[g] = c[g]

(***************************************************************************)
(* C1: every draw() invoked with the target present and the backend        *)
(* succeeding issues exactly two draw_mesh calls against that target: the  *)
(* fine pass first (fine grid style, no label text) and the coarse pass    *)
(* (coarse grid style, the requested label counts) second.                 *)
(***************************************************************************)
C1_TwoCallsFineThenCoarse ==
  [][(DrawStep /\ cfg.target # None /\ BackendSucceeds) =>
       /\ Len(Issued) = 2
       /\ Issued[1].target = cfg.target[1]
       /\ Issued[2].target = cfg.target[1]
       /\ Issued[1].mesh_line_style
            = Resolved(cfg.line_style_2, [color |-> Black(10)])
       /\ NoText(Issued[1])
       /\ Issued[2].mesh_line_style
            = Resolved(cfg.line_style_1, [color |-> Black(20)])
       /\ Issued[2].hints = <<cfg.n_y_labels, cfg.n_x_labels>>]_vars

C4_SecondDrawReportsError ==
  [][DrawStep =>
       /\ cfg'.target = None
       /\ ndraw >= 1 =>
            /\ cfg.target = None
            /\ calls' = calls
            /\ result'[1] = "Err"]_vars

(***************************************************************************)
(* C5: an error of the fine pass is returned as it is and the coarse pass  *)
(* is not issued; an error of the coarse pass is returned as it is and the *)
(* fine call stays on the target; draw() returns success only when both    *)
(* calls succeeded.  No call is issued twice.                              *)
(***************************************************************************)
C5_ErrorsPropagate ==
  [][DrawStep =>
       /\ Len(Issued) <= 2
       /\ Len(calls') = Len(calls) + Len(Issued)
       /\ \A i \in 1..Len(calls) : calls'[i] = calls[i]
       /\ (Len(Issued) >= 1 /\ Issued[1].ret # Ok) =>
            /\ result' = Issued[1].ret
            /\ Len(Issued) = 1
       /\ (Len(Issued) >= 1 /\ Issued[1].ret = Ok) =>
            /\ Len(Issued) = 2
            /\ result' = Issued[2].ret
       /\ result' = Ok =>
            /\ Len(Issued) = 2
            /\ Issued[1].ret = Ok
            /\ Issued[2].ret = Ok]_vars

C5_Witness ==
  /\ ndraw = 1
  /\ Len(calls) = 2
  /\ calls[1].ret = Ok
  /\ calls[2].ret = Err("E2")
  /\ result = Err("E2")

(***************************************************************************)
(* C6: the fine pass is called with hints (n_y_labels * 10,                *)
(* n_x_labels * 10) and the coarse pass with (n_y_labels, n_x_labels), for *)
(* every value of the counts, and the fine pass's callback returns no text *)
(* for every gridline.                                                     *)
(***************************************************************************)
C6_FineHintsTenfold ==
  [][(DrawStep /\ cfg.target # None) =>
       /\ Len(Issued) >= 1
       /\ Issued[1].hints = <<cfg.n_y_labels * 10, cfg.n_x_labels * 10>>
       /\ NoText(Issued[1])
       /\ Len(Issued) = 2 =>
            /\ Issued[2].hints = <<cfg.n_y_labels, cfg.n_x_labels>>
            /\ Issued[1].hints[1] = 10 * Issued[2].hints[1]
            /\ Issued[1].hints[2] = 10 * Issued[2].hints[2]]_vars

(***************************************************************************)
(* C7: each style slot resolves wholly to its override when one is set and *)
(* wholly to its built-in default otherwise; line_style_1 (default black   *)
(* at 20%) is the grid style of the coarse pass, line_style_2 (default     *)
(* black at 10%) that of the fine pass, the axis style defaults to solid   *)
(* black, the label style to the size-12 font, and an unset axis           *)
(* description style resolves to the resolved label style.                 *)
(***************************************************************************)
C7_StylesResolve ==
  [][DrawStep =>
       \A i \in 1..Len(Issued) :
         /\ Issued[i].mesh_line_style
              = IF i = 1 THEN Resolved(cfg.line_style_2, [color |-> Black(10)])
                ELSE Resolved(cfg.line_style_1, [color |-> Black(20)])
         /\ Issued[i].axis_style = Resolved(cfg.axis_style, [color |-> Black(100)])
         /\ Issued[i].label_style = Resolved(cfg.label_style, Size12)
         /\ Issued[i].axis_desc_style
              = Resolved(cfg.axis_desc_style, Resolved(cfg.label_style, Size12))]_vars

C7_Witness ==
  /\ Len(calls) = 2
  /\ nmut = 1
  /\ cfg.axis_desc_style = None
  /\ cfg.label_style # None
  /\ calls[2].label_style = cfg.label_style[1]
  /\ calls[2].axis_desc_style = cfg.label_style[1]
  /\ calls[2].mesh_line_style = [color |-> Black(20)]
  /\ calls[1].mesh_line_style = [color |-> Black(10)]

(***************************************************************************)
(* C8: in the coarse pass every X-tagged gridline invokes only format_x    *)
(* and every Y-tagged gridline only format_y, and the label is Some of the *)
(* formatter's result on the gridline's value; the formatter is the one    *)
(* the last x_label_formatter / y_label_formatter call installed, and      *)
(* installing one leaves the other as it was.                              *)
(***************************************************************************)
C8_LabelDispatch ==
  [][/\ \A f \in Formatters :
          /\ x_label_formatter(cfg, f).format_x = f
          /\ x_label_formatter(cfg, f).format_y = cfg.format_y
          /\ y_label_formatter(cfg, f).format_y = f
          /\ y_label_formatter(cfg, f).format_x = cfg.format_x
     /\ (DrawStep /\ Len(Issued) = 2) =>
          \A m \in DOMAIN Issued[2].labels :
            LET l == Issued[2].labels[m]
            IN /\ l.line = m
               /\ l.line.tag = "XMesh" =>
                    /\ l.invoked = {"format_x"}
                    /\ l.text = Some(Apply(cfg.format_x, l.line.v))
               /\ l.line.tag = "YMesh" =>
                    /\ l.invoked = {"format_y"}
                    /\ l.text = Some(Apply(cfg.format_y, l.line.v))]_vars

C8_Witness ==
  /\ Len(calls) = 2
  /\ DOMAIN calls[2].labels = MeshLines
  /\ calls[2].labels[[tag |-> "XMesh", v |-> "a"]].text = Some("A")
  /\ calls[2].labels[[tag |-> "XMesh", v |-> "b"]].text = Some("B")
  /\ calls[2].labels[[tag |-> "YMesh", v |-> "c"]].text = Some("c")

(***************************************************************************)
(* C9: draw() changes no stored field of the configuration other than the  *)
(* target slot, whether it succeeds or fails.                              *)
(***************************************************************************)
C9_DrawKeepsConfiguration ==
  [][DrawStep => \A f \in Fields \ {"target"} : cfg'[f] = cfg[f]]_vars

C9_Witness ==
  /\ ndraw = 1
  /\ nmut = 2
  /\ result[1] = "Err"
  /\ cfg.target = None
  /\ cfg.line_style_1 # None
  /\ cfg.label_style = None
  /\ cfg.x_desc # None

(***************************************************************************)
(* C10: each mutator overwrites its own field with the value given and     *)
(* leaves every other field, the target slot included, unchanged; a        *)
(* mutator call issues no draw_mesh call.                                  *)
(***************************************************************************)
MutatorOutcomes(c) ==
  {x_label_offset(c, v) : v \in Offsets}
    \cup {disable_x_mesh(c), disable_y_mesh(c), disable_x_axis(c), disable_y_axis(c)}
    \cup {axis_style(c, st) : st \in UserShapeStyles}
    \cup {x_labels(c, v) : v \in LabelCounts}
    \cup {y_labels(c, v) : v \in LabelCounts}
    \cup {line_style_1(c, st) : st \in UserShapeStyles}
    \cup {line_style_2(c, st) : st \in UserShapeStyles}
    \cup {label_style(c, st) : st \in UserTextStyles}
    \cup {x_label_formatter(c, f) : f \in Formatters}
    \cup {y_label_formatter(c, f) : f \in Formatters}
    \cup {axis_desc_style(c, st) : st \in UserTextStyles}
    \cup {x_desc(c, d) : d \in Descs}
    \cup {y_desc(c, d) : d \in Descs}

C10_MutatorsOverwriteOwnField ==
  [][/\ \A v \in Offsets : Overwrites(cfg, x_label_offset(cfg, v), "x_label_offset", v)
     /\ Overwrites(cfg, disable_x_mesh(cfg), "draw_x_mesh", FALSE)
     /\ Overwrites(cfg, disable_y_mesh(cfg), "draw_y_mesh", FALSE)
     /\ Overwrites(cfg, disable_x_axis(cfg), "draw_x_axis", FALSE)
     /\ Overwrites(cfg, disable_y_axis(cfg), "draw_y_axis", FALSE)
     /\ \A st \in UserShapeStyles :
          /\ Overwrites(cfg, axis_style(cfg, st), "axis_style", Some(st))
          /\ Overwrites(cfg, line_style_1(cfg, st), "line_style_1", Some(st))
          /\ Overwrites(cfg, line_style_2(cfg, st), "line_style_2", Some(st))
     /\ \A v \in LabelCounts :
          /\ Overwrites(cfg, x_labels(cfg, v), "n_x_labels", v)
          /\ Overwrites(cfg, y_labels(cfg, v), "n_y_labels", v)
     /\ \A st \in UserTextStyles :
          /\ Overwrites(cfg, label_style(cfg, st), "label_style", Some(st))
          /\ Overwrites(cfg, axis_desc_style(cfg, st), "axis_desc_style", Some(st))
     /\ \A f \in Formatters :
          /\ Overwrites(cfg, x_label_formatter(cfg, f), "format_x", f)
          /\ Overwrites(cfg, y_label_formatter(cfg, f), "format_y", f)
     /\ \A d \in Descs :
          /\ Overwrites(cfg, x_desc(cfg, d), "x_desc", Some(d))
          /\ Overwrites(cfg, y_desc(cfg, d), "y_desc", Some(d))
     /\ nmut' # nmut =>
          /\ cfg' \in MutatorOutcomes(cfg)
          /\ calls' = calls
          /\ result' = result]_vars

C10_Witness ==
  /\ nmut = 2
  /\ ndraw = 0
  /\ calls = <<>>
  /\ cfg = [InitCfg EXCEPT !.n_x_labels = 0, !.y_desc = Some("Time")]

====
